---- MODULE Spec2Model ----
(***************************************************************************)
(* IEEE_738-2012.py: steady-state conductor temperature by bisection       *)
(* (lines 64-104) followed by the fixed-step Euler integration of the      *)
(* heat balance with melting-point detection (lines 111-150).              *)
(*                                                                         *)
(* The script computes with IEEE doubles.  The model computes with         *)
(* fixed-point integers, every quantity rounded to a grid:                 *)
(*   temperature   1/TS degC      (Ta, Tc_min, Tc_max, Tc_test, Tc_ss, Tc) *)
(*   resistance    1e-9 ohm/m     (R_T_low, R_T_high, R_Tc)                *)
(*   power         0.01 W/m       (q_cn, q_r, q_s, R_Tc * I^2)             *)
(*   current       1 A            (I_ss, I_f, I_ss_result, I)              *)
(*   time          1 s            (dt, time, time_to_melt)                 *)
(* Products and quotients are exact floors (MulDiv) and every intermediate *)
(* stays below 2^31.  That holds for ambient temperatures up to 5 degC     *)
(* (the bracket's upper end is Ta*1000), so the ambient temperature, which *)
(* the script fixes on line 43, is an input of the model.                  *)
(***************************************************************************)
EXTENDS Integers

\* ---------------------------------------------------------------- bounds

\* Grid points per degree Celsius.
TS == 16

\* Largest number_of_points (line 34) explored.
MaxN == 4

\* ------------------------------------------------------- program constants

I_f == 20000
R_T_high == 86880
R_T_low == 72830
T_high == 75
T_low == 25
mCp == 534
\* 0.0205 * rho_f**0.5 * D**0.75, in 1e-6 W/m per degC^1.25
K_cn == 216976
\* 0.0178 * D * epsilon, in 1e-5 W/m
K_r == 20292
\* alpha * Q_se * sin(theta) * area, in 0.01 W/m
q_s == 1121
\* The tolerance of the search; the script's 0.01 A is below the 1 A grid.
I_ss_threshold == 1
\* Melting point of aluminium, degC.
AluminiumMeltingPoint == 660

\* ------------------------------------------------------------- the inputs

TaSet == {4, 5}
I_ssSet == {0, 100, 500, I_f, 2 * I_f}
dtSet == {1, 10}

\* np.float64 nan: what a negative base raised to 1.25 gives in the loop.
NaN == -2000000000

IsNaN(v) == v = NaN

\* ------------------------------------------------------------- arithmetic

Abs(v) == IF v < 0 THEN -v ELSE v

\* <<floor(a*b/c), (a*b) mod c>> for a, b >= 0 and 0 < c < 2^26, computed on
\* the base-16 digits of b so that no intermediate exceeds the larger of the
\* result and 31*c.
RECURSIVE MulDivQR(_, _, _)
MulDivQR(a, b, c) ==
    IF a = 0 \/ b = 0 THEN <<0, 0>>
    ELSE LET h == MulDivQR(a, b \div 16, c)
             t == 16 * h[2] + (b % 16) * (a % c)
         IN  <<16 * h[1] + (b % 16) * (a \div c) + (t \div c), t % c>>

MulDiv(a, b, c) == MulDivQR(a, b, c)[1]

\* a*b/c rounded to the nearest integer.
MulDivRound(a, b, c) ==
    LET qr == MulDivQR(a, b, c)
    IN  qr[1] + (IF 2 * qr[2] >= c THEN 1 ELSE 0)

\* floor(sqrt(n)) for n >= 0.
RECURSIVE Isqrt(_)
Isqrt(n) ==
    IF n < 2 THEN n
    ELSE LET s == 2 * Isqrt(n \div 4)
         IN  IF s + 1 <= n \div (s + 1) THEN s + 1 ELSE s

\* 4096 * (d/TS)^0.25 for a temperature difference of d >= 0 grid points.
Root4(d) == Isqrt(Isqrt((d * 16384) \div TS) * 131072)

\* 25 * ((T + 273)/100)^4 for a temperature of T grid points.
Pow4(T) ==
    LET u == T + 273 * TS
        a == MulDiv(u, u, 100 * TS)
    IN  MulDiv(a, a, 400 * TS * TS)

\* --------------------------------------------------- get_i (lines 73-88)

get_i_R_Tc(Tc_) ==
    ((R_T_high - R_T_low) * (Tc_ - T_low * TS)) \div ((T_high - T_low) * TS) + R_T_low

get_i_q_cn(Tc_, Ta_) ==
    MulDiv(MulDiv(Tc_ - Ta_, Root4(Tc_ - Ta_), 4096), K_cn, 10000 * TS)

get_i_q_r(Tc_, Ta_) == MulDiv(Pow4(Tc_) - Pow4(Ta_), K_r, 25000)

\* What math.sqrt is given.
Radicand(Tc_, Ta_) == get_i_q_cn(Tc_, Ta_) + get_i_q_r(Tc_, Ta_) - q_s

\* The call's outcome: the current it returns, or the exception it raises.
\* Below ambient the float power (Tc - Ta)**1.25 is complex and math.sqrt
\* refuses it; a negative radicand is math.sqrt's domain error.
get_i(Tc_, Ta_) ==
    IF Tc_ < Ta_ THEN [exc |-> "TypeError", val |-> 0]
    ELSE IF Radicand(Tc_, Ta_) < 0 THEN [exc |-> "ValueError", val |-> 0]
    ELSE [exc |-> "none",
          val |-> Isqrt(MulDiv(Radicand(Tc_, Ta_), 10000000, get_i_R_Tc(Tc_)))]

\* np.real of a float is that float.
np_real(v) == v

\* ---------------------------------------------------------------- state

VARIABLES
    pc,                         \* where the script is
    exception,                  \* the exception that ended the script, or "none"
    Ta,                         \* line 43
    I_ss,                       \* line 37
    number_of_points,           \* line 34
    dt,                         \* line 35
    melting_point_temperature,  \* line 59
    found_melting_point,        \* line 60
    time_to_melt,               \* line 61
    Tc_min, Tc_max,             \* lines 66-67
    I_ss_result, Tc_test,       \* lines 68-69
    Tc_ss,                      \* line 104
    I, Tc, time,                \* lines 112-114
    x                           \* the loop variable of line 127: the next step

vars == <<pc, exception, Ta, I_ss, number_of_points, dt, melting_point_temperature,
          found_melting_point, time_to_melt, Tc_min, Tc_max, I_ss_result, Tc_test,
          Tc_ss, I, Tc, time, x>>

inputs == <<Ta, I_ss, number_of_points, dt, melting_point_temperature>>
search == <<Tc_min, Tc_max, I_ss_result, Tc_test>>
melt == <<found_melting_point, time_to_melt>>
arrays == <<I, Tc, time, x>>

\* Lines 32-69.  Tc_ss and the arrays are not bound yet; nothing reads them
\* before AssignTc_ss and AllocateArrays bind them.
Init ==
    /\ pc = "while"
    /\ exception = "none"
    /\ Ta \in {c * TS : c \in TaSet}
    /\ I_ss \in I_ssSet
    /\ number_of_points \in 0..MaxN
    /\ dt \in dtSet
    /\ melting_point_temperature \in {AluminiumMeltingPoint * TS, Ta}
    /\ found_melting_point = 0
    /\ time_to_melt = 0
    /\ Tc_min = Ta
    /\ Tc_max = Ta * 1000
    /\ I_ss_result = 0
    /\ Tc_test = 0
    /\ Tc_ss = 0
    /\ I = <<>>
    /\ Tc = <<>>
    /\ time = <<>>
    /\ x = 0

\* ------------------------------------------- the bisection (lines 91-104)

\* The condition of the while on line 91.
WhileCond ==
    \/ I_ss_result > I_ss + I_ss_threshold
    \/ I_ss_result < I_ss - I_ss_threshold

\* Line 92.
Midpoint == (Tc_max + Tc_min) \div 2

\* One pass through the body, lines 92-101.
WhileBody ==
    /\ pc = "while"
    /\ WhileCond
    /\ Tc_test' = Midpoint
    /\ LET r == get_i(Midpoint, Ta)
       IN  \/ /\ r.exc # "none"
              /\ exception' = r.exc
              /\ pc' = "raised"
              /\ UNCHANGED <<I_ss_result, Tc_min, Tc_max>>
           \/ /\ r.exc = "none"
              /\ np_real(r.val) = I_ss
              /\ I_ss_result' = np_real(r.val)
              /\ pc' = "assign"
              /\ UNCHANGED <<exception, Tc_min, Tc_max>>
           \/ /\ r.exc = "none"
              /\ np_real(r.val) > I_ss
              /\ I_ss_result' = np_real(r.val)
              /\ Tc_max' = Midpoint
              /\ UNCHANGED <<pc, exception, Tc_min>>
           \/ /\ r.exc = "none"
              /\ np_real(r.val) < I_ss
              /\ I_ss_result' = np_real(r.val)
              /\ Tc_min' = Midpoint
              /\ UNCHANGED <<pc, exception, Tc_max>>
    /\ UNCHANGED <<inputs, melt, Tc_ss, arrays>>

\* The while condition is false: on to line 104.
WhileExit ==
    /\ pc = "while"
    /\ ~WhileCond
    /\ pc' = "assign"
    /\ UNCHANGED <<exception, inputs, melt, search, Tc_ss, arrays>>

\* Line 104.
AssignTc_ss ==
    /\ pc = "assign"
    /\ Tc_ss' = Tc_test
    /\ pc' = "arrays"
    /\ UNCHANGED <<exception, inputs, melt, search, arrays>>

\* ------------------------------------------ the integration (lines 111-150)

\* The levels the waveform of lines 118-124 is built from.
Levels == {0, I_ss, I_f}

\* Lines 111-124: the arrays of number_of_points + 1 zeros, Tc[0], and the
\* current waveform, any sequence of the three levels.
AllocateArrays ==
    /\ pc = "arrays"
    /\ I' \in [0..number_of_points -> Levels]
    /\ Tc' = [k \in 0..number_of_points |-> IF k = 0 THEN Tc_ss ELSE 0]
    /\ time' = [k \in 0..number_of_points |-> 0]
    /\ x' = 0
    /\ pc' = "for"
    /\ UNCHANGED <<exception, inputs, melt, search, Tc_ss>>

\* Lines 128-138, on np.float64: a nan operand gives nan.
loop_R_Tc(Tc_) ==
    IF IsNaN(Tc_) THEN NaN
    ELSE ((R_T_high - R_T_low) * (Tc_ - T_low * TS)) \div ((T_high - T_low) * TS) + R_T_low

T_film(Tc_, Ta_) == IF IsNaN(Tc_) THEN NaN ELSE (Tc_ + Ta_) \div 2

loop_q_cn(Tc_, Ta_) ==
    IF IsNaN(Tc_) \/ Tc_ < Ta_ THEN NaN
    ELSE MulDiv(MulDiv(Tc_ - Ta_, Root4(Tc_ - Ta_), 4096), K_cn, 10000 * TS)

loop_q_r(Tc_, Ta_) ==
    IF IsNaN(Tc_) THEN NaN
    ELSE IF Tc_ < Ta_ THEN -MulDiv(Pow4(Ta_) - Pow4(Tc_), K_r, 25000)
    ELSE MulDiv(Pow4(Tc_) - Pow4(Ta_), K_r, 25000)

\* A step that takes the current of sample k, not of sample k + 1.
StepCurrent_same_index(k) == I[k]

\* The sample of the waveform that drives step k (line 141).
StepCurrent(k) == I[k + 1]

\* A heat balance in which convection heats the conductor.
NetPower_convection_gain(k) ==
    IF IsNaN(loop_q_cn(Tc[k], Ta)) THEN NaN
    ELSE MulDiv(StepCurrent(k) * StepCurrent(k), loop_R_Tc(Tc[k]), 10000000)
         + q_s + loop_q_cn(Tc[k], Ta) - loop_q_r(Tc[k], Ta)

\* mCp * dTc_dt[k] of line 141, in 0.01 W/m.
NetPower(k) ==
    IF IsNaN(loop_q_cn(Tc[k], Ta)) THEN NaN
    ELSE MulDiv(StepCurrent(k) * StepCurrent(k), loop_R_Tc(Tc[k]), 10000000)
         + q_s - loop_q_cn(Tc[k], Ta) - loop_q_r(Tc[k], Ta)

\* Tc[k] + dTc_dt[k] * dt of line 144, rounded to the grid.
Increment(p, dt_) ==
    (IF p < 0 THEN -1 ELSE 1) * MulDivRound(Abs(p), dt_ * TS, mCp * 100)

NewTc(k) ==
    IF IsNaN(NetPower(k)) THEN NaN ELSE Tc[k] + Increment(NetPower(k), dt)

\* Tc[x + 1] >= melting_point_temperature; a comparison with nan is false.
AtOrAbove(v, limit) == ~IsNaN(v) /\ v >= limit

\* A melt test without the found_melting_point == 0 guard.
MeltDetected_no_latch(v) == AtOrAbove(v, melting_point_temperature)

\* The condition of the if on line 148.
MeltDetected(v) ==
    AtOrAbove(v, melting_point_temperature) /\ found_melting_point = 0

\* A loop that also stops at the melting point.
LoopFinished_or_melted == x = number_of_points \/ found_melting_point = 1

\* range(number_of_points) is exhausted.
LoopFinished == x = number_of_points

\* One pass through the body, lines 128-150.
ForBody ==
    /\ pc = "for"
    /\ ~LoopFinished
    /\ Tc' = [Tc EXCEPT ![x + 1] = NewTc(x)]
    /\ time' = [time EXCEPT ![x + 1] = time[x] + dt]
    /\ IF MeltDetected(NewTc(x))
       THEN /\ found_melting_point' = 1
            /\ time_to_melt' = time[x] + dt
       ELSE UNCHANGED melt
    /\ x' = x + 1
    /\ UNCHANGED <<pc, exception, inputs, search, Tc_ss, I>>

ForExit ==
    /\ pc = "for"
    /\ LoopFinished
    /\ pc' = "done"
    /\ UNCHANGED <<exception, inputs, melt, search, Tc_ss, arrays>>

Next ==
    \/ WhileBody
    \/ WhileExit
    \/ AssignTc_ss
    \/ AllocateArrays
    \/ ForBody
    \/ ForExit

Spec == Init /\ [][Next]_vars

\* --------------------------------------------------------------- claims

\* Tc_ss is bound: the search has returned.
Returned == pc \in {"arrays", "for", "done"}

\* The arrays are bound: the integration has started.
Started == pc \in {"for", "done"}

\* What the error taxonomy calls invalid input, and its complement.
InvalidInput ==
    dt <= 0 \/ number_of_points = 0 \/ melting_point_temperature <= Ta

ValidInput == ~InvalidInput

\* Entry k of the trajectory is at or above the melting point.
Crossed(k) == AtOrAbove(Tc[k], melting_point_temperature)

\* The least index of S at which the trajectory is at or above the melting point.
FirstCrossing(S) ==
    CHOOSE k \in S : Crossed(k) /\ \A j \in S : j < k => ~Crossed(j)

\* Every sample of the waveform is 0.
AllZero == \A k \in DOMAIN I : I[k] = 0

\* q_cn + q_r at a temperature at or above ambient.
Loss(T) == get_i_q_cn(T, Ta) + get_i_q_r(T, Ta)

\* The least grid temperature in (lo, hi] whose loss is at least q_s, given
\* Loss(lo) < q_s <= Loss(hi).
RECURSIVE BalanceIn(_, _)
BalanceIn(lo, hi) ==
    IF hi - lo <= 1 THEN hi
    ELSE LET mid == (lo + hi) \div 2
         IN  IF Loss(mid) >= q_s THEN BalanceIn(lo, mid) ELSE BalanceIn(mid, hi)

\* The balance temperature, where q_cn + q_r = q_s.
T_bal == BalanceIn(Ta, Ta + 100 * TS)

\* d(q_cn + q_r)/dTc at T > Ta, in 0.01 W/m per degC, rounded up:
\* 1.25 * q_cn / (T - Ta) + 4 * K_r * ((T + 273)/100)^4 / (T + 273).
LossSlope(T) ==
    MulDiv(5 * get_i_q_cn(T, Ta), TS, 4 * (T - Ta)) + 1
    + MulDiv(4 * MulDiv(Pow4(T), K_r, 25000), TS, T + 273 * TS) + 1

\* The step is short for the temperature: dt * d(q_cn + q_r)/dTc <= mCp.
SmallStep(T) == dt * LossSlope(T) <= mCp * 100

\* C1: once the integration has started, the melt flag is set exactly when
\* some new temperature Tc[k], 1 <= k <= x, has been at or above the melting
\* point, and time_to_melt is then time[k] of the first such k ...
C1_FirstCrossing ==
    Started =>
        IF \E k \in 1..x : Crossed(k)
        THEN found_melting_point = 1 /\ time_to_melt = time[FirstCrossing(1..x)]
        ELSE found_melting_point = 0 /\ time_to_melt = 0

\* ... and no step changes the flag or the time once the flag is set.
C1_Latched ==
    found_melting_point = 1 =>
        found_melting_point' = 1 /\ time_to_melt' = time_to_melt

\* C1: melt detection latches once, at the first step whose new temperature
\* is at or above the melting point; later steps, crossing or not, leave
\* found_melting_point and time_to_melt alone.
C1_MeltLatchesOnce == []C1_FirstCrossing /\ [][C1_Latched]_vars

\* C1 witness: the trajectory went above the melting point, back below it
\* and above it again, and time_to_melt is the time of the first crossing.
C1_Witness ==
    /\ Started
    /\ found_melting_point = 1
    /\ \E i, j, k \in 1..x :
          /\ i < j /\ j < k
          /\ i = FirstCrossing(1..x)
          /\ ~IsNaN(Tc[j]) /\ ~Crossed(j)
          /\ Crossed(k)
          /\ time_to_melt = time[i]

\* C2: when the integration has completed on valid input, the melt event is
\* detected iff some Tc[k], 0 <= k <= number_of_points, the initial value
\* included, is at or above the melting point, and time_to_melt is then
\* time[k] of the least such k.
C2_MeltIffAnyCrossing ==
    (pc = "done" /\ ValidInput) =>
        IF \E k \in 0..number_of_points : Crossed(k)
        THEN /\ found_melting_point = 1
             /\ time_to_melt = time[FirstCrossing(0..number_of_points)]
        ELSE found_melting_point = 0

\* C3: the arrays hold number_of_points + 1 entries, time[0] = 0, every step
\* taken adds exactly dt to the time, the loop reads the waveform only inside
\* it, and the script is done only after step number_of_points, at time
\* number_of_points * dt, whether or not the melting point was found.
C3_FullHorizon ==
    /\ Started =>
          /\ DOMAIN Tc = 0..number_of_points
          /\ DOMAIN time = 0..number_of_points
          /\ DOMAIN I = 0..number_of_points
          /\ x <= number_of_points
          /\ time[0] = 0
          /\ \A k \in 0..(x - 1) :
                time[k + 1] = time[k] + dt /\ time[k + 1] > time[k]
    /\ (pc = "for" /\ ~LoopFinished) => (x + 1) \in DOMAIN I
    /\ pc = "done" =>
          x = number_of_points /\ time[number_of_points] = number_of_points * dt

\* C3 witness: the melting point was found before the last step and the
\* integration still ran to the end of the waveform.
C3_Witness ==
    /\ pc = "done"
    /\ number_of_points >= 3
    /\ found_melting_point = 1
    /\ time_to_melt < time[number_of_points - 1]

\* C4: the temperature the search returns gives back the target current:
\* get_i(Tc_ss) is a current within I_ss_threshold of I_ss.
C4_RoundTrip ==
    Returned =>
        /\ get_i(Tc_ss, Ta).exc = "none"
        /\ Abs(np_real(get_i(Tc_ss, Ta).val) - I_ss) <= I_ss_threshold

\* The loop condition holds and a pass through the body leaves every
\* variable as it is: the while loop of line 91 runs forever.
Stalled ==
    /\ pc = "while"
    /\ WhileCond
    /\ Midpoint = Tc_test
    /\ get_i(Midpoint, Ta).exc = "none"
    /\ np_real(get_i(Midpoint, Ta).val) = I_ss_result
    /\ \/ I_ss_result > I_ss /\ Tc_max = Midpoint
       \/ I_ss_result < I_ss /\ Tc_min = Midpoint

\* C5: the search always terminates: it never loops forever.
C5_SearchTerminates == ~Stalled

\* C6: on invalid input no integration step is taken, no melt event is set
\* and the script does not complete normally.
C6_InvalidInputRejected ==
    InvalidInput => (pc # "done" /\ x = 0 /\ found_melting_point = 0)

\* C7: a negative radicand at a candidate temperature yields a real current
\* and the search goes on: no numeric error escapes the search.
C7_NoNumericError == pc # "raised" /\ exception = "none"

\* C8: with a waveform of zeros, from an initial temperature above the
\* balance temperature, every step gives T_bal <= Tc[k+1] <= Tc[k].
C8_ZeroCurrentCooling ==
    (Started /\ ValidInput /\ AllZero /\ Tc[0] > T_bal) =>
        \A k \in 0..(x - 1) :
            ~IsNaN(Tc[k + 1]) /\ T_bal <= Tc[k + 1] /\ Tc[k + 1] <= Tc[k]

\* C8, amended: with a waveform of zeros, from an initial temperature above
\* the balance temperature, a step from Tc[k] >= T_bal never raises the
\* temperature, and it stays at or above T_bal when the step is short for
\* that temperature, dt * d(q_cn + q_r)/dTc <= mCp.
C8_ShortStepCooling ==
    (Started /\ AllZero /\ Tc[0] > T_bal) =>
        \A k \in 0..(x - 1) :
            (~IsNaN(Tc[k]) /\ Tc[k] >= T_bal) =>
                /\ ~IsNaN(Tc[k + 1])
                /\ Tc[k + 1] <= Tc[k]
                /\ SmallStep(Tc[k]) => Tc[k + 1] >= T_bal

\* C8 witness: two short steps of cooling towards the balance temperature.
C8_Witness ==
    /\ Started /\ AllZero /\ x >= 2
    /\ Tc[0] > T_bal
    /\ SmallStep(Tc[0]) /\ SmallStep(Tc[1])
    /\ Tc[1] < Tc[0] /\ Tc[2] < Tc[1] /\ Tc[2] >= T_bal

\* The new temperature by the formulas of get_i: resistance and losses at
\* temperature T, current cur.
C9_Euler(T, cur) ==
    IF IsNaN(T) \/ T < Ta THEN NaN
    ELSE T + Increment(MulDiv(cur * cur, get_i_R_Tc(T), 10000000) + q_s
                       - get_i_q_cn(T, Ta) - get_i_q_r(T, Ta), dt)

\* C9: every step taken is the Euler step Tc[k+1] = Tc[k] + dt * (1/mCp) *
\* (R_Tc(Tc[k]) * I[k+1]^2 + q_s - q_cn(Tc[k]) - q_r(Tc[k])), with the
\* resistance and the losses of the heat-balance function at Tc[k] and the
\* current of sample k+1; I[0] and the film temperature do not enter.
C9_EulerStep ==
    Started => \A k \in 0..(x - 1) : Tc[k + 1] = C9_Euler(Tc[k], I[k + 1])

\* C9 witness: a completed integration whose first samples differ and whose
\* temperature moved.
C9_Witness ==
    /\ pc = "done"
    /\ number_of_points >= 2
    /\ I[0] # I[1] /\ I[1] # I[2]
    /\ Tc[1] # Tc[0] /\ Tc[2] # Tc[1]
    /\ ~IsNaN(Tc[number_of_points])

\* C10: the bracket stays inside [Ta, Ta*1000] with Tc_min <= Tc_max, and
\* the temperature the search returns lies in [Ta, Ta*1000].
C10_Bracket ==
    /\ Ta <= Tc_min /\ Tc_min <= Tc_max /\ Tc_max <= Ta * 1000
    /\ Returned => (Ta <= Tc_ss /\ Tc_ss <= Ta * 1000)

====
